---- MODULE Spec2Model ----
(***************************************************************************)
(* Model of the SME fractional-ownership canister (src/src/index.ts).      *)
(*                                                                         *)
(* Storage.  azle's StableBTreeMap(memoryId) is a handle on the stable     *)
(* memory region memoryId: two handles made with the same id read and      *)
(* write the same map.  index.ts uses id 0 for smeStorage, and builds the  *)
(* nested maps with the literal ids 2 (assets of an SME), 3 (investors of  *)
(* an SME) and 4 (investors of an asset) in every create_sme and           *)
(* register_asset call.  The model therefore has one map per memory id;    *)
(* an SME or Asset record stores the memory id of the maps it refers to.   *)
(* get returns the stored value and insert stores the value given, so the  *)
(* read-modify-insert sequences of the code are assignments to the maps.   *)
(*                                                                         *)
(* Numbers.  The arguments are integers, and create_sme is also called     *)
(* with NaN for totalShares and pricePerShare; the values the code derives *)
(* from them are JavaScript numbers (IEEE 754 doubles): a quotient can be a*)
(* fraction, Infinity, -Infinity, NaN or -0.  A number is a record         *)
(* [t, n, d]: t = "fin" is the double nearest the rational n / d (d > 0,   *)
(* lowest terms; n = 0, d = -1 is -0), t = "inf" is n * Infinity, t = "nan"*)
(* is NaN.  The sold-share counters and holdings are integers, so sums and *)
(* comparisons of them are exact.  A stored valuePerShare whose d is not a *)
(* power of two differs from n / d by its rounding error, and              *)
(* Math.floor(amount / valuePerShare) is computed from that error: it is   *)
(* one less than the floor of the exact quotient when the exact quotient is*)
(* an integer that the double quotient stays below                         *)
(* (Math.floor(9 / (9 / 7)) is 6).                                         *)
(*                                                                         *)
(* Strings.  A string is the sequence of its UTF-16 code units.            *)
(*                                                                         *)
(* Results.  last records the last call: its name, how it ended and what   *)
(* it returned.  A call that throws ends with the kind of its Error:       *)
(* "... must be greater than zero" and "... cannot be empty" are           *)
(* InvalidArgument, "... not found" is NotFound, "Not enough shares ..."   *)
(* is CapacityExceeded.  The invest functions return nothing.              *)
(*                                                                         *)
(* Specifications.  Spec has the four calls that can write; the lookups    *)
(* write nothing and read only the stored state, so SpecWithLookups, which *)
(* adds them, reaches the same stored states and differs only in last.     *)
(*                                                                         *)
(* History.  credited is not program state: it records, for each entity    *)
(* id and investor, the sum of the share counts that successful            *)
(* investments of that investor in that entity have purchased.             *)
(***************************************************************************)
EXTENDS Integers, Sequences, FiniteSets, TLC

VARIABLES smeStorage, mem2, mem3, mem4, nextId, last, credited

vars == <<smeStorage, mem2, mem3, mem4, nextId, last, credited>>

(* ------------------------------ bounds --------------------------------- *)
\* number of identifiers the id generator issues
MaxIds == 3
\* investor identities 1..NumInvestors
NumInvestors == 1
\* the share count of an entity that is given shares
MaxShares == 2
\* the price per share of an enterprise that is given a price
MaxPrice == 2
\* finite sold-share counters and holdings are explored within -MaxAbs..MaxAbs
MaxAbs == 2

Ids == 1..MaxIds
\* an id not yet issued is an unknown id
IdArgs == Ids
Investors == 1..NumInvestors
AssetShareArgs == {0 - MaxShares, 0, MaxShares}
\* declared values: MaxShares + 1 gives a fractional value per share
ValueArgs == {0 - (MaxShares + 1), 0, MaxShares + 1}
\* amounts: negative, zero, below the price, one share, MaxShares shares
AmountArgs == {0 - 1, 0, 1, MaxPrice, MaxPrice * MaxShares}
\* a string is the sequence of its UTF-16 code units:
\* "", " ", "\t", "\n\u00A0", "C"
Names == {<<>>, <<32>>, <<9>>, <<10, 160>>, <<67>>}
AssetNames == {<<>>, <<67>>}
\* the explored registrations (name, value, totalShares): 0 / 0 and a zero
\* value with an empty name, a registration with nothing wrong, negative
\* arguments
AssetCases ==
    {<< <<>>, 0, 0 >>,
     << <<>>, 0, MaxShares >>,
     << <<67>>, MaxShares + 1, MaxShares >>,
     << <<67>>, 0 - (MaxShares + 1), 0 - MaxShares >>}

(* --------------------------- JavaScript numbers ------------------------ *)
Fin(i) == [t |-> "fin", n |-> i, d |-> 1]
NaN == [t |-> "nan", n |-> 0, d |-> 1]
Inf(s) == [t |-> "inf", n |-> s, d |-> 1]
NegZero == [t |-> "fin", n |-> 0, d |-> 0 - 1]
\* the value of a call that returns nothing, or throws
Undefined == [t |-> "undefined", n |-> 0, d |-> 1]
\* null, the value of a lookup that finds nothing
Null == [t |-> "null", n |-> 0, d |-> 1]

\* the number arguments of create_sme: negative, zero, positive, NaN
ShareArgs == {Fin(0 - 1), Fin(0), Fin(MaxShares), NaN}
PriceArgs == {Fin(0 - 1), Fin(0), Fin(MaxPrice), NaN}
\* the explored creations (name, totalShares, pricePerShare): every
\* combination of the integer arguments, and NaN for both numbers
SmeCases ==
    {c \in Names \X ShareArgs \X PriceArgs : (c[2] = NaN) = (c[3] = NaN)}

Abs(i) == IF i < 0 THEN 0 - i ELSE i

RECURSIVE GCD(_, _)
GCD(a, b) == IF b = 0 THEN a ELSE GCD(b, a % b)

\* sign of a number that is not NaN; the sign of a zero is kept in d
Sign(x) == IF x.n > 0 THEN 1 ELSE IF x.n < 0 THEN 0 - 1 ELSE IF x.d > 0 THEN 1 ELSE 0 - 1

IsZero(x) == x.t = "fin" /\ x.n = 0

SignedZero(s) == IF s > 0 THEN Fin(0) ELSE NegZero

\* the rational p / q, q # 0, p # 0
Ratio(p, q) ==
    LET g == GCD(Abs(p), Abs(q))
        s == IF q < 0 THEN 0 - 1 ELSE 1
    IN [t |-> "fin", n |-> (s * p) \div g, d |-> (s * q) \div g]

\* x / y for integers x and y: the double nearest the quotient
Div(x, y) ==
    IF y = 0 THEN (IF x = 0 THEN NaN ELSE Inf(IF x > 0 THEN 1 ELSE 0 - 1))
    ELSE IF x = 0 THEN SignedZero(IF y > 0 THEN 1 ELSE 0 - 1)
    ELSE Ratio(x, y)

RECURSIVE Pow2(_)
Pow2(j) == IF j = 0 THEN 1 ELSE 2 * Pow2(j - 1)

\* 2^j mod D
RECURSIVE PowMod2(_, _)
PowMod2(j, D) == IF j = 0 THEN 1 % D ELSE (2 * PowMod2(j - 1, D)) % D

RECURSIVE Log2Up(_, _, _)
Log2Up(N, D, e) == IF 2 * D <= N THEN Log2Up(N, 2 * D, e + 1) ELSE e

RECURSIVE Log2Down(_, _, _)
Log2Down(N, D, e) == IF N >= D THEN e ELSE Log2Down(2 * N, D, e - 1)

\* the binary exponent of N / D > 0: the e with 2^e <= N / D < 2^(e + 1)
Log2Floor(N, D) == IF N >= D THEN Log2Up(N, D, 0) ELSE Log2Down(N, D, 0)

\* the double nearest N / D > 0 is N / D + (w / D) ulp, with ulp = 2^(e - 52):
\* the 53-bit significand is cut after 52 fraction bits and rounded to
\* nearest, ties to even; r is the remainder left by the cut, L the last bit
RoundingError(N, D) ==
    LET k == 52 - Log2Floor(N, D)
        r1 == ((N % D) * PowMod2(k - 1, D)) % D
        L == (2 * r1) \div D
        r == (2 * r1) % D
    IN IF 2 * r < D THEN 0 - r
       ELSE IF 2 * r > D THEN D - r
       ELSE IF L = 0 THEN 0 - r ELSE D - r

\* A * 2^ea > B * 2^eb
ScaledGt(A, ea, B, eb) ==
    LET m == IF ea < eb THEN ea ELSE eb
    IN A * Pow2(ea - m) > B * Pow2(eb - m)

\* Math.floor(amount / unitPrice) for an integer amount # 0 and a finite
\* unitPrice # 0.  The double unitPrice differs from the rational by its
\* rounding error, so an exact integer quotient q can come out just below q;
\* it then rounds back to q unless it is more than half a gap away, and the
\* floor is q - 1.  Any other quotient is too far from an integer to cross it.
FloorOfQuotient(amount, unitPrice) ==
    LET N == Abs(unitPrice.n)
        D == unitPrice.d
        s == IF unitPrice.n > 0 THEN 1 ELSE 0 - 1
        exact == (s * amount * D) \div N
        Q == (Abs(amount) * D) \div N
        w == RoundingError(N, D)
        ep == Log2Floor(N, D)
        eq == Log2Floor(Q, 1)
        below == IF s * amount > 0
                 THEN w > 0 /\ ScaledGt(Q * w, ep + 1, N, IF Q = Pow2(eq) THEN eq - 1 ELSE eq)
                 ELSE w < 0 /\ ~ScaledGt(N, eq, Q * (0 - w), ep + 1)
    IN IF (Abs(amount) * D) % N = 0 /\ below THEN Fin(exact - 1) ELSE Fin(exact)

\* x + y, for x and y integers, infinities or NaN
Add(x, y) ==
    IF x.t = "nan" \/ y.t = "nan" THEN NaN
    ELSE IF x.t = "inf" /\ y.t = "inf" THEN (IF x.n = y.n THEN x ELSE NaN)
    ELSE IF x.t = "inf" THEN x
    ELSE IF y.t = "inf" THEN y
    ELSE IF x = NegZero /\ y = NegZero THEN NegZero
    ELSE Fin(x.n + y.n)

\* x > y: false with NaN, -0 equals 0, and two finite numbers compare as
\* the rationals n / d they are nearest to (rounding keeps their order)
Gt(x, y) ==
    IF x.t = "nan" \/ y.t = "nan" THEN FALSE
    ELSE IF x.t = "inf" THEN x.n > 0 /\ ~(y.t = "inf" /\ y.n > 0)
    ELSE IF y.t = "inf" THEN y.n < 0
    ELSE x.n * Abs(y.d) > y.n * Abs(x.d)

\* x <= y
Le(x, y) == x.t # "nan" /\ y.t # "nan" /\ ~Gt(x, y)

\* x || 0 : NaN, 0 and -0 are falsy
OrZero(x) == IF x.t = "nan" \/ IsZero(x) THEN Fin(0) ELSE x

(* ------------------------------- strings ------------------------------- *)
\* what String.prototype.trim strips: the WhiteSpace code points (TAB, VT,
\* FF, SP, NBSP, ZWNBSP and the space separators) and the LineTerminator
\* code points (LF, CR, LS, PS)
WhiteSpace ==
    {9, 11, 12, 32, 160, 65279, 5760, 8239, 8287, 12288}
        \cup (8192..8202) \cup {10, 13, 8232, 8233}

RECURSIVE TrimStart(_)
TrimStart(s) ==
    IF s # <<>> /\ Head(s) \in WhiteSpace THEN TrimStart(Tail(s)) ELSE s

RECURSIVE TrimEnd(_)
TrimEnd(s) ==
    IF s # <<>> /\ s[Len(s)] \in WhiteSpace
    THEN TrimEnd(SubSeq(s, 1, Len(s) - 1)) ELSE s

\* name.trim()
Trim(s) == TrimEnd(TrimStart(s))

(* --------------------------- StableBTreeMap ---------------------------- *)
Has(m, k) == k \in DOMAIN m

Insert(m, k, v) == [x \in (DOMAIN m) \cup {k} |-> IF x = k THEN v ELSE m[x]]

\* map.get(k) || 0 on a map of numbers
GetOrZero(m, k) == IF Has(m, k) THEN OrZero(m[k]) ELSE Fin(0)

EmptyMap == [x \in {} |-> 0]

(* ------------------------------ operations ----------------------------- *)
Result(op, res, ret) == [op |-> op, result |-> res, ret |-> ret]

Init ==
    /\ smeStorage = EmptyMap
    /\ mem2 = EmptyMap
    /\ mem3 = EmptyMap
    /\ mem4 = EmptyMap
    /\ nextId = 1
    /\ last = Result("init", "ok", Undefined)
    /\ credited = EmptyMap

\* validatePositiveNumber(value, fieldName) does not throw: value <= 0 is
\* false, as it is for every positive number and for NaN
validatePositiveNumber(value) == ~Le(value, Fin(0))

create_sme(name, totalShares, pricePerShare) ==
    IF ~validatePositiveNumber(totalShares) \/ ~validatePositiveNumber(pricePerShare)
       \/ Len(Trim(name)) = 0
    THEN /\ last' = Result("create_sme", "InvalidArgument", Undefined)
         /\ UNCHANGED <<smeStorage, mem2, mem3, mem4, nextId, credited>>
    ELSE /\ smeStorage' = Insert(smeStorage, nextId,
                [smeId |-> nextId, name |-> name, totalShares |-> totalShares,
                 sharesSold |-> Fin(0), pricePerShare |-> pricePerShare,
                 assets |-> 2, investors |-> 3])
         /\ nextId' = nextId + 1
         /\ last' = Result("create_sme", "ok", Fin(nextId))
         /\ UNCHANGED <<mem2, mem3, mem4, credited>>

\* a register_asset that derives the value per share by integer division
register_asset_Truncating(smeId, name, value, totalShares) ==
    IF ~Has(smeStorage, smeId)
    THEN /\ last' = Result("register_asset", "NotFound", Undefined)
         /\ UNCHANGED <<smeStorage, mem2, mem3, mem4, nextId, credited>>
    ELSE /\ mem2' = Insert(mem2, nextId,
                [assetId |-> nextId, name |-> name, totalShares |-> totalShares,
                 sharesSold |-> Fin(0),
                 valuePerShare |-> IF totalShares = 0 THEN Div(value, totalShares)
                                   ELSE Fin(value \div totalShares),
                 investors |-> 4, smeId |-> smeId])
         /\ nextId' = nextId + 1
         /\ last' = Result("register_asset", "ok", Fin(nextId))
         /\ UNCHANGED <<smeStorage, mem3, mem4, credited>>

register_asset(smeId, name, value, totalShares) ==
    IF ~Has(smeStorage, smeId)
    THEN /\ last' = Result("register_asset", "NotFound", Undefined)
         /\ UNCHANGED <<smeStorage, mem2, mem3, mem4, nextId, credited>>
    ELSE /\ mem2' = Insert(mem2, nextId,
                [assetId |-> nextId, name |-> name, totalShares |-> totalShares,
                 sharesSold |-> Fin(0),
                 valuePerShare |-> Div(value, totalShares),
                 investors |-> 4, smeId |-> smeId])
         /\ nextId' = nextId + 1
         /\ last' = Result("register_asset", "ok", Fin(nextId))
         /\ UNCHANGED <<smeStorage, mem3, mem4, credited>>

\* Math.floor(amount / unitPrice)
SharesToPurchase(amount, unitPrice) ==
    IF unitPrice.t = "nan" THEN NaN
    ELSE IF unitPrice.t = "inf"
         THEN SignedZero((IF amount < 0 THEN 0 - 1 ELSE 1) * unitPrice.n)
    ELSE IF IsZero(unitPrice)
         THEN (IF amount = 0 THEN NaN
               ELSE Inf((IF amount < 0 THEN 0 - 1 ELSE 1) * Sign(unitPrice)))
    ELSE IF amount = 0 THEN SignedZero(Sign(unitPrice))
    ELSE FloorOfQuotient(amount, unitPrice)

\* the capacity check: sharesSold + sharesToPurchase > totalShares
CapacityExceeded(sharesSold, sharesToPurchase, totalShares) ==
    Gt(Add(sharesSold, sharesToPurchase), totalShares)

\* the history of credits: k more shares of the entity for the investor
Credit(c, entityId, investorId, k) ==
    Insert(c, <<entityId, investorId>>,
           Add(IF Has(c, <<entityId, investorId>>) THEN c[<<entityId, investorId>>] ELSE Fin(0), k))

\* an invest_in_sme that credits the ledger before the capacity check
invest_in_sme_LedgerFirst(smeId, investorId, amount) ==
    IF ~Has(smeStorage, smeId)
    THEN /\ last' = Result("invest_in_sme", "NotFound", Undefined)
         /\ UNCHANGED <<smeStorage, mem2, mem3, mem4, nextId, credited>>
    ELSE LET smeOpt == smeStorage[smeId]
             sharesToPurchase == SharesToPurchase(amount, smeOpt.pricePerShare)
             currentShares == GetOrZero(mem3, investorId)
         IN /\ mem3' = Insert(mem3, investorId, Add(currentShares, sharesToPurchase))
            /\ IF CapacityExceeded(smeOpt.sharesSold, sharesToPurchase, smeOpt.totalShares)
               THEN /\ last' = Result("invest_in_sme", "CapacityExceeded", Undefined)
                    /\ UNCHANGED <<smeStorage, mem2, mem4, nextId, credited>>
               ELSE /\ smeStorage' = Insert(smeStorage, smeId,
                           [smeOpt EXCEPT !.sharesSold = Add(smeOpt.sharesSold, sharesToPurchase)])
                    /\ last' = Result("invest_in_sme", "ok", Undefined)
                    /\ credited' = Credit(credited, smeId, investorId, sharesToPurchase)
                    /\ UNCHANGED <<mem2, mem4, nextId>>

invest_in_sme(smeId, investorId, amount) ==
    IF ~Has(smeStorage, smeId)
    THEN /\ last' = Result("invest_in_sme", "NotFound", Undefined)
         /\ UNCHANGED <<smeStorage, mem2, mem3, mem4, nextId, credited>>
    ELSE LET smeOpt == smeStorage[smeId]
             sharesToPurchase == SharesToPurchase(amount, smeOpt.pricePerShare)
             currentShares == GetOrZero(mem3, investorId)
         IN IF CapacityExceeded(smeOpt.sharesSold, sharesToPurchase, smeOpt.totalShares)
            THEN /\ last' = Result("invest_in_sme", "CapacityExceeded", Undefined)
                 /\ UNCHANGED <<smeStorage, mem2, mem3, mem4, nextId, credited>>
            ELSE /\ mem3' = Insert(mem3, investorId, Add(currentShares, sharesToPurchase))
                 /\ smeStorage' = Insert(smeStorage, smeId,
                        [smeOpt EXCEPT !.sharesSold = Add(smeOpt.sharesSold, sharesToPurchase)])
                 /\ last' = Result("invest_in_sme", "ok", Undefined)
                 /\ credited' = Credit(credited, smeId, investorId, sharesToPurchase)
                 /\ UNCHANGED <<mem2, mem4, nextId>>

invest_in_asset(smeId, assetId, investorId, amount) ==
    IF ~Has(smeStorage, smeId) \/ ~Has(mem2, assetId)
    THEN /\ last' = Result("invest_in_asset", "NotFound", Undefined)
         /\ UNCHANGED <<smeStorage, mem2, mem3, mem4, nextId, credited>>
    ELSE LET smeOpt == smeStorage[smeId]
             assetOpt == mem2[assetId]
             sharesToPurchase == SharesToPurchase(amount, assetOpt.valuePerShare)
             currentShares == GetOrZero(mem4, investorId)
         IN IF CapacityExceeded(assetOpt.sharesSold, sharesToPurchase, Fin(assetOpt.totalShares))
            THEN /\ last' = Result("invest_in_asset", "CapacityExceeded", Undefined)
                 /\ UNCHANGED <<smeStorage, mem2, mem3, mem4, nextId, credited>>
            ELSE /\ mem4' = Insert(mem4, investorId, Add(currentShares, sharesToPurchase))
                 /\ mem2' = Insert(mem2, assetId,
                        [assetOpt EXCEPT !.sharesSold = Add(assetOpt.sharesSold, sharesToPurchase)])
                 /\ smeStorage' = Insert(smeStorage, smeId, smeOpt)
                 /\ last' = Result("invest_in_asset", "ok", Undefined)
                 /\ credited' = Credit(credited, assetId, investorId, sharesToPurchase)
                 /\ UNCHANGED <<mem3, nextId>>

get_sme(smeId) ==
    /\ last' = Result("get_sme", "ok",
                      IF Has(smeStorage, smeId) THEN smeStorage[smeId] ELSE Null)
    /\ UNCHANGED <<smeStorage, mem2, mem3, mem4, nextId, credited>>

get_asset(smeId, assetId) ==
    /\ last' = Result("get_asset", "ok",
                      IF ~Has(smeStorage, smeId) THEN Null
                      ELSE IF Has(mem2, assetId) THEN mem2[assetId] ELSE Null)
    /\ UNCHANGED <<smeStorage, mem2, mem3, mem4, nextId, credited>>

get_investor_sme_holdings(smeId, investorId) ==
    /\ last' = Result("get_investor_sme_holdings", "ok",
                      IF ~Has(smeStorage, smeId) THEN Fin(0)
                      ELSE GetOrZero(mem3, investorId))
    /\ UNCHANGED <<smeStorage, mem2, mem3, mem4, nextId, credited>>

get_investor_asset_holdings(smeId, assetId, investorId) ==
    /\ last' = Result("get_investor_asset_holdings", "ok",
                      IF ~Has(smeStorage, smeId) THEN Fin(0)
                      ELSE IF ~Has(mem2, assetId) THEN Fin(0)
                      ELSE GetOrZero(mem4, investorId))
    /\ UNCHANGED <<smeStorage, mem2, mem3, mem4, nextId, credited>>

\* the calls themselves are total, as in the code; the exploration follows
\* them while at most MaxIds ids are issued and every finite sold-share
\* counter and holding lies within -MaxAbs..MaxAbs
InRange(x) == x.t # "fin" \/ (x.n >= 0 - MaxAbs /\ x.n <= MaxAbs)

Explored ==
    /\ nextId <= MaxIds + 1
    /\ \A e \in DOMAIN smeStorage : InRange(smeStorage[e].sharesSold)
    /\ \A a \in DOMAIN mem2 : InRange(mem2[a].sharesSold)
    /\ \A i \in DOMAIN mem3 : InRange(mem3[i])
    /\ \A i \in DOMAIN mem4 : InRange(mem4[i])

Next ==
    \/ \E name \in Names, totalShares \in ShareArgs, pricePerShare \in PriceArgs :
          /\ <<name, totalShares, pricePerShare>> \in SmeCases
          /\ create_sme(name, totalShares, pricePerShare)
          /\ Explored'
    \/ \E smeId \in IdArgs, name \in AssetNames, value \in ValueArgs, totalShares \in AssetShareArgs :
          /\ <<name, value, totalShares>> \in AssetCases
          /\ register_asset(smeId, name, value, totalShares)
          /\ Explored'
    \/ \E smeId \in IdArgs, investorId \in Investors, amount \in AmountArgs :
          /\ invest_in_sme(smeId, investorId, amount)
          /\ Explored'
    \/ \E smeId \in IdArgs, assetId \in IdArgs, investorId \in Investors, amount \in AmountArgs :
          /\ invest_in_asset(smeId, assetId, investorId, amount)
          /\ Explored'

\* the calls that only read
Lookup ==
    \/ \E smeId \in IdArgs : get_sme(smeId)
    \/ \E smeId \in IdArgs, assetId \in IdArgs : get_asset(smeId, assetId)
    \/ \E smeId \in IdArgs, investorId \in Investors :
          get_investor_sme_holdings(smeId, investorId)
    \/ \E smeId \in IdArgs, assetId \in IdArgs, investorId \in Investors :
          get_investor_asset_holdings(smeId, assetId, investorId)

\* the calls that can write
Spec == Init /\ [][Next]_vars

\* every exported call
SpecWithLookups == Init /\ [][Next \/ Lookup]_vars

(* ------------------------- reading the stored state -------------------- *)
\* the map behind a StableBTreeMap handle for investors (memory id 3 or 4)
LedgerOf(memoryId) == IF memoryId = 3 THEN mem3 ELSE mem4

\* get_investor_sme_holdings / get_investor_asset_holdings on a found entity
Holding(ledger, investorId) == GetOrZero(ledger, investorId)

RECURSIVE SumOver(_, _)
SumOver(m, ks) ==
    IF ks = {} THEN Fin(0)
    ELSE LET k == CHOOSE x \in ks : TRUE IN Add(m[k], SumOver(m, ks \ {k}))

\* the sum of the values of a ledger
SumLedger(m) == SumOver(m, DOMAIN m)

\* x > 0
IsPositive(x) == x.t # "nan" /\ x.n > 0

\* x === y on numbers
NumEq(x, y) ==
    /\ x.t # "nan"
    /\ y.t # "nan"
    /\ (x = y \/ (IsZero(x) /\ IsZero(y)))

\* everything the canister stores, and the id generator
Stored == <<smeStorage, mem2, mem3, mem4, nextId>>

\* k is the integer floor(amount / unitPrice) of the real quotient, for the
\* unit price n / d
IsFloorOf(k, amount, unitPrice) ==
    \/ unitPrice.t = "inf" /\ k = 0
    \/ /\ unitPrice.t = "fin"
       /\ unitPrice.n > 0
       /\ k * unitPrice.n <= amount * unitPrice.d
       /\ amount * unitPrice.d < (k + 1) * unitPrice.n
    \/ /\ unitPrice.t = "fin"
       /\ unitPrice.n < 0
       /\ k * unitPrice.n >= amount * unitPrice.d
       /\ amount * unitPrice.d > (k + 1) * unitPrice.n

\* the share counts a call of the explored arguments can buy
KRange == (0 - (MaxPrice * MaxShares * MaxShares + 1))..(MaxPrice * MaxShares * MaxShares + 1)

(* -------------------------------- claims -------------------------------- *)

\* C1: after any sequence of calls, every enterprise and every asset has
\* 0 <= sharesSold <= totalShares.
C1_SharesSoldWithinTotal ==
    /\ \A e \in DOMAIN smeStorage :
          /\ Le(Fin(0), smeStorage[e].sharesSold)
          /\ Le(smeStorage[e].sharesSold, smeStorage[e].totalShares)
    /\ \A a \in DOMAIN mem2 :
          /\ Le(Fin(0), mem2[a].sharesSold)
          /\ Le(mem2[a].sharesSold, Fin(mem2[a].totalShares))

\* C2: for every enterprise and every asset, the shares recorded in the
\* entity's investor ledger sum to the entity's sharesSold.
C2_LedgerSumEqualsSharesSold ==
    /\ \A e \in DOMAIN smeStorage :
          NumEq(SumLedger(LedgerOf(smeStorage[e].investors)), smeStorage[e].sharesSold)
    /\ \A a \in DOMAIN mem2 :
          NumEq(SumLedger(LedgerOf(mem2[a].investors)), mem2[a].sharesSold)

\* C3: a successful investment of amount by an investor in an entity with
\* unit price p adds the integer k = floor(amount / p) to the entity's
\* sharesSold and the same k to the investor's holding in it.
C3_InvestCreditsFloor ==
    [][/\ \A smeId \in IdArgs, investorId \in Investors, amount \in AmountArgs :
             (invest_in_sme(smeId, investorId, amount) /\ last'.result = "ok") =>
                \E k \in KRange :
                   /\ IsFloorOf(k, amount, smeStorage[smeId].pricePerShare)
                   /\ NumEq(smeStorage'[smeId].sharesSold,
                            Add(smeStorage[smeId].sharesSold, Fin(k)))
                   /\ NumEq(Holding(LedgerOf(smeStorage[smeId].investors)', investorId),
                            Add(Holding(LedgerOf(smeStorage[smeId].investors), investorId), Fin(k)))
       /\ \A smeId \in IdArgs, assetId \in IdArgs, investorId \in Investors, amount \in AmountArgs :
             (invest_in_asset(smeId, assetId, investorId, amount) /\ last'.result = "ok") =>
                \E k \in KRange :
                   /\ IsFloorOf(k, amount, mem2[assetId].valuePerShare)
                   /\ NumEq(mem2'[assetId].sharesSold, Add(mem2[assetId].sharesSold, Fin(k)))
                   /\ NumEq(Holding(LedgerOf(mem2[assetId].investors)', investorId),
                            Add(Holding(LedgerOf(mem2[assetId].investors), investorId), Fin(k)))
      ]_vars

\* C4: an investment rejected for exceeding the capacity leaves the whole
\* stored state as it was: no counter, ledger entry or entity changes.
C4_RejectedInvestChangesNothing ==
    [][(last'.op \in {"invest_in_sme", "invest_in_asset"} /\ last'.result = "CapacityExceeded")
          => UNCHANGED Stored]_vars

\* C4 witness: an investment in a sold-out enterprise with a recorded
\* holding has just been rejected for capacity.
C4_Witness ==
    /\ last.op = "invest_in_sme"
    /\ last.result = "CapacityExceeded"
    /\ \E e \in DOMAIN smeStorage :
          /\ smeStorage[e].sharesSold = smeStorage[e].totalShares
          /\ \E i \in DOMAIN mem3 : mem3[i] = smeStorage[e].totalShares

\* C5: an investment with amount > 0 into an existing entity is accepted
\* exactly when sharesSold + floor(amount / unitPrice) <= totalShares, and
\* is otherwise rejected with CapacityExceeded.
C5_AcceptedIffFits ==
    [][/\ \A smeId \in IdArgs, investorId \in Investors, amount \in AmountArgs :
             (invest_in_sme(smeId, investorId, amount) /\ amount > 0 /\ Has(smeStorage, smeId)) =>
                LET fits == Le(Add(smeStorage[smeId].sharesSold,
                                   SharesToPurchase(amount, smeStorage[smeId].pricePerShare)),
                               smeStorage[smeId].totalShares)
                IN last'.result = (IF fits THEN "ok" ELSE "CapacityExceeded")
       /\ \A smeId \in IdArgs, assetId \in IdArgs, investorId \in Investors, amount \in AmountArgs :
             (/\ invest_in_asset(smeId, assetId, investorId, amount)
              /\ amount > 0 /\ Has(smeStorage, smeId) /\ Has(mem2, assetId)) =>
                LET fits == Le(Add(mem2[assetId].sharesSold,
                                   SharesToPurchase(amount, mem2[assetId].valuePerShare)),
                               Fin(mem2[assetId].totalShares))
                IN last'.result = (IF fits THEN "ok" ELSE "CapacityExceeded")
      ]_vars

\* C6: an investment with amount <= 0 into an existing target fails with
\* InvalidArgument and changes nothing.
C6_NonPositiveAmountRejected ==
    [][/\ \A smeId \in IdArgs, investorId \in Investors, amount \in AmountArgs :
             (invest_in_sme(smeId, investorId, amount) /\ amount <= 0 /\ Has(smeStorage, smeId)) =>
                (last'.result = "InvalidArgument" /\ UNCHANGED Stored)
       /\ \A smeId \in IdArgs, assetId \in IdArgs, investorId \in Investors, amount \in AmountArgs :
             (/\ invest_in_asset(smeId, assetId, investorId, amount)
              /\ amount <= 0 /\ Has(smeStorage, smeId) /\ Has(mem2, assetId)) =>
                (last'.result = "InvalidArgument" /\ UNCHANGED Stored)
      ]_vars

\* C7: invest_in_sme with an unknown enterprise, invest_in_asset with an
\* unknown enterprise or an asset that is not an asset of that enterprise,
\* and register_asset with an unknown enterprise fail with NotFound whatever
\* the other arguments, and change nothing.
C7_UnknownIdNotFound ==
    [][/\ \A smeId \in IdArgs, investorId \in Investors, amount \in AmountArgs :
             (invest_in_sme(smeId, investorId, amount) /\ ~Has(smeStorage, smeId)) =>
                (last'.result = "NotFound" /\ UNCHANGED Stored)
       /\ \A smeId \in IdArgs, assetId \in IdArgs, investorId \in Investors, amount \in AmountArgs :
             (/\ invest_in_asset(smeId, assetId, investorId, amount)
              /\ \/ ~Has(smeStorage, smeId)
                 \/ ~Has(mem2, assetId)
                 \/ mem2[assetId].smeId # smeId) =>
                (last'.result = "NotFound" /\ UNCHANGED Stored)
       /\ \A smeId \in IdArgs, name \in AssetNames, value \in ValueArgs, totalShares \in AssetShareArgs :
             (register_asset(smeId, name, value, totalShares) /\ ~Has(smeStorage, smeId)) =>
                (last'.result = "NotFound" /\ UNCHANGED Stored)
      ]_vars

\* C8: the calls are synchronous functions of a single-threaded canister, so
\* concurrent investments in one entity are applied one whole call after the
\* other; each investment in an entity whose ledger sums to its sharesSold
\* leaves sharesSold not above totalShares and the ledger still summing to
\* sharesSold (no oversell, no credited share lost).  The sums are compared
\* as values: a NaN sum counts as equal to a NaN counter.
C8_InvestKeepsCapacityAndLedger ==
    [][/\ \A smeId \in IdArgs, investorId \in Investors, amount \in AmountArgs :
             (/\ invest_in_sme(smeId, investorId, amount)
              /\ Has(smeStorage, smeId)
              /\ SumLedger(LedgerOf(smeStorage[smeId].investors)) = smeStorage[smeId].sharesSold) =>
                /\ ~Gt(smeStorage'[smeId].sharesSold, smeStorage'[smeId].totalShares)
                /\ SumLedger(LedgerOf(smeStorage[smeId].investors)') = smeStorage'[smeId].sharesSold
       /\ \A smeId \in IdArgs, assetId \in IdArgs, investorId \in Investors, amount \in AmountArgs :
             (/\ invest_in_asset(smeId, assetId, investorId, amount)
              /\ Has(smeStorage, smeId) /\ Has(mem2, assetId)
              /\ SumLedger(LedgerOf(mem2[assetId].investors)) = mem2[assetId].sharesSold) =>
                /\ ~Gt(mem2'[assetId].sharesSold, Fin(mem2'[assetId].totalShares))
                /\ SumLedger(LedgerOf(mem2[assetId].investors)') = mem2'[assetId].sharesSold
      ]_vars

\* a name that is empty or only whitespace
Blank(name) == \A j \in 1..Len(name) : name[j] \in WhiteSpace

\* C9: create_sme with a blank name, totalShares <= 0 or pricePerShare <= 0
\* fails with InvalidArgument and inserts no enterprise (a create_sme step
\* that is not such a failure is not a step with such arguments); so every
\* enterprise stored after a step (none is stored initially) has
\* totalShares > 0 and pricePerShare > 0.
C9_CreateSmeValidates ==
    [][/\ (last'.op = "create_sme" /\ ~(last'.result = "InvalidArgument" /\ UNCHANGED Stored)) =>
             \A name \in Names, totalShares \in ShareArgs, pricePerShare \in PriceArgs :
                (Blank(name) \/ Le(totalShares, Fin(0)) \/ Le(pricePerShare, Fin(0))) =>
                   ~create_sme(name, totalShares, pricePerShare)
       /\ \A e \in DOMAIN smeStorage' :
             IsPositive(smeStorage'[e].totalShares) /\ IsPositive(smeStorage'[e].pricePerShare)
      ]_vars

\* C10: register_asset on an existing enterprise with an empty name,
\* declaredValue <= 0 or totalShares <= 0 fails with InvalidArgument and
\* inserts no asset; so every stored asset has totalShares > 0 and
\* valuePerShare > 0.
C10_RegisterAssetValidates ==
    /\ [][\A smeId \in IdArgs, name \in AssetNames, value \in ValueArgs, totalShares \in AssetShareArgs :
             (/\ register_asset(smeId, name, value, totalShares)
              /\ Has(smeStorage, smeId)
              /\ (Len(name) = 0 \/ value <= 0 \/ totalShares <= 0)) =>
                (last'.result = "InvalidArgument" /\ UNCHANGED Stored)]_vars
    /\ [](\A a \in DOMAIN mem2 :
             mem2[a].totalShares > 0 /\ IsPositive(mem2[a].valuePerShare))

\* the ledger behind an investors handle, among the given maps
LedgerAt(memoryId, m3, m4) == IF memoryId = 3 THEN m3 ELSE m4

\* the asset collection behind an assets handle, given the map of memory 2
CollectionAt(memoryId, m2) == IF memoryId = 2 THEN m2 ELSE EmptyMap

\* C11: an entity just created by a successful create_sme or register_asset
\* is stored under the returned id (so get_sme / get_asset find it), has
\* sharesSold = 0 and a ledger in which every investor holds 0, and a new
\* enterprise has an empty asset collection, whatever calls came before.
C11_NewEntityStartsEmpty ==
    [][/\ (last'.op = "create_sme" /\ last'.result = "ok") =>
             LET id == last'.ret.n IN
                /\ Has(smeStorage', id)
                /\ smeStorage'[id].smeId = id
                /\ smeStorage'[id].sharesSold = Fin(0)
                /\ \A i \in Investors :
                      Holding(LedgerAt(smeStorage'[id].investors, mem3', mem4'), i) = Fin(0)
                /\ DOMAIN CollectionAt(smeStorage'[id].assets, mem2') = {}
       /\ (last'.op = "register_asset" /\ last'.result = "ok") =>
             LET id == last'.ret.n IN
                /\ Has(mem2', id)
                /\ Has(smeStorage', mem2'[id].smeId)
                /\ mem2'[id].assetId = id
                /\ mem2'[id].sharesSold = Fin(0)
                /\ \A i \in Investors :
                      Holding(LedgerAt(mem2'[id].investors, mem3', mem4'), i) = Fin(0)
      ]_vars

\* the asset collection of a stored enterprise
AssetsOf(e) == CollectionAt(smeStorage[e].assets, mem2)

\* C12: every asset found in the asset collection of an enterprise names that
\* enterprise as its parent (smeId) and is in the collection of no other
\* enterprise, so that looking it up under another enterprise finds nothing.
C12_AssetInExactlyOneEnterprise ==
    \A e \in DOMAIN smeStorage :
       \A a \in DOMAIN AssetsOf(e) :
          /\ AssetsOf(e)[a].smeId = e
          /\ \A other \in DOMAIN smeStorage : other # e => ~Has(AssetsOf(other), a)

\* the shares credited so far to the investor in the entity; 0 without a position
CreditedOrZero(entityId, investorId) ==
    IF Has(credited, <<entityId, investorId>>) THEN credited[<<entityId, investorId>>] ELSE Fin(0)

\* the same number: 0 and -0 are the same, and so are two NaN
SameNumber(x, y) == x = y \/ (IsZero(x) /\ IsZero(y))

\* C13: a lookup ends normally and changes nothing stored; get_sme of an
\* unknown id and get_asset of an unknown enterprise or asset return null;
\* the holdings lookups return 0 when the enterprise, the asset or the
\* investor's position does not exist, and otherwise the sum of the shares
\* credited to the investor by the successful investments in that entity.
C13_LookupsReadOnlyAndExact ==
    [][/\ (last'.op \in {"get_sme", "get_asset", "get_investor_sme_holdings",
                          "get_investor_asset_holdings"}) =>
             (last'.result = "ok" /\ UNCHANGED Stored)
       /\ (last'.op = "get_sme") =>
             \A smeId \in IdArgs :
                (get_sme(smeId) /\ ~Has(smeStorage, smeId)) => last'.ret = Null
       /\ (last'.op = "get_asset") =>
             \A smeId \in IdArgs, assetId \in IdArgs :
                (/\ get_asset(smeId, assetId)
                 /\ (~Has(smeStorage, smeId) \/ ~Has(AssetsOf(smeId), assetId))) =>
                   last'.ret = Null
       /\ (last'.op = "get_investor_sme_holdings") =>
             \A smeId \in IdArgs, investorId \in Investors :
                get_investor_sme_holdings(smeId, investorId) =>
                   SameNumber(last'.ret,
                              IF Has(smeStorage, smeId)
                              THEN CreditedOrZero(smeId, investorId) ELSE Fin(0))
       /\ (last'.op = "get_investor_asset_holdings") =>
             \A smeId \in IdArgs, assetId \in IdArgs, investorId \in Investors :
                get_investor_asset_holdings(smeId, assetId, investorId) =>
                   SameNumber(last'.ret,
                              IF Has(smeStorage, smeId) /\ Has(AssetsOf(smeId), assetId)
                              THEN CreditedOrZero(assetId, investorId) ELSE Fin(0))
      ]_vars

\* x is the quotient v / n of the integers v and n
IsQuotient(x, v, n) ==
    IF n # 0 /\ v # 0
    THEN x.t = "fin" /\ x.d > 0 /\ x.n * n = v * x.d
    ELSE x = Div(v, n)

\* the finite number n / d is a double: d is a power of two
ExactDouble(x) == x.d > 0 /\ x.d = Pow2(Log2Floor(x.d, 1))

\* C14: register_asset stores valuePerShare = value / totalShares (the real
\* quotient, not a truncated one); no step changes the valuePerShare of a
\* stored asset; a successful invest_in_asset of amount adds
\* floor(amount / valuePerShare) to the asset's sharesSold (a step that is a
\* successful call with given arguments has this result), and for every
\* stored asset whose valuePerShare is positive and an exact double (as it is
\* whenever totalShares divides value) that number is the integer k with
\* k * valuePerShare <= amount < (k + 1) * valuePerShare; for value 5000,
\* totalShares 100, amount 125 the unit value is 50 and the share count 2.
C14_AssetPricing ==
    /\ [](/\ Div(5000, 100) = Fin(50)
          /\ SharesToPurchase(125, Div(5000, 100)) = Fin(2)
          /\ \A a \in DOMAIN mem2, amount \in AmountArgs :
                LET p == mem2[a].valuePerShare IN
                   (p.t = "fin" /\ p.n > 0 /\ ExactDouble(p)) =>
                      \E k \in KRange :
                         IsFloorOf(k, amount, p) /\ SharesToPurchase(amount, p) = Fin(k))
    /\ [][/\ (last'.op = "register_asset" /\ last'.result = "ok") =>
                \A smeId \in IdArgs, name \in AssetNames, value \in ValueArgs,
                   totalShares \in AssetShareArgs :
                   \/ IsQuotient(mem2'[last'.ret.n].valuePerShare, value, totalShares)
                   \/ ~register_asset(smeId, name, value, totalShares)
          /\ \A a \in DOMAIN mem2 :
                Has(mem2', a) /\ mem2'[a].valuePerShare = mem2[a].valuePerShare
          /\ (last'.op = "invest_in_asset" /\ last'.result = "ok") =>
                \A smeId \in IdArgs, assetId \in IdArgs, investorId \in Investors,
                   amount \in AmountArgs :
                   \/ ~Has(smeStorage, smeId)
                   \/ ~Has(mem2, assetId)
                   \/ mem2'[assetId].sharesSold =
                         Add(mem2[assetId].sharesSold,
                             SharesToPurchase(amount, mem2[assetId].valuePerShare))
                   \/ ~invest_in_asset(smeId, assetId, investorId, amount)
          ]_vars

\* C14 witness: an investment in an asset with a fractional value per share
\* has just succeeded and the asset has sold a share.
C14_Witness ==
    /\ last.op = "invest_in_asset"
    /\ last.result = "ok"
    /\ \E a \in DOMAIN mem2 :
          /\ mem2[a].valuePerShare.t = "fin"
          /\ mem2[a].valuePerShare.d > 1
          /\ mem2[a].totalShares > 0
          /\ IsPositive(mem2[a].sharesSold)

\* C15: a successful invest_in_sme / invest_in_asset returns the number of
\* shares bought: the returned value is floor(amount / unitPrice) and is the
\* increase of the target's sharesSold.
C15_InvestReturnsSharesPurchased ==
    [][/\ \A smeId \in IdArgs, investorId \in Investors, amount \in AmountArgs :
             (invest_in_sme(smeId, investorId, amount) /\ last'.result = "ok") =>
                /\ last'.ret = SharesToPurchase(amount, smeStorage[smeId].pricePerShare)
                /\ smeStorage'[smeId].sharesSold = Add(smeStorage[smeId].sharesSold, last'.ret)
       /\ \A smeId \in IdArgs, assetId \in IdArgs, investorId \in Investors, amount \in AmountArgs :
             (invest_in_asset(smeId, assetId, investorId, amount) /\ last'.result = "ok") =>
                /\ last'.ret = SharesToPurchase(amount, mem2[assetId].valuePerShare)
                /\ mem2'[assetId].sharesSold = Add(mem2[assetId].sharesSold, last'.ret)
      ]_vars

\* the step leaves the sharesSold of the stored enterprise e and every
\* investor's holding in it as they were
SmeUntouched(e) ==
    /\ Has(smeStorage', e)
    /\ smeStorage'[e].sharesSold = smeStorage[e].sharesSold
    /\ \A i \in Investors :
          Holding(LedgerAt(smeStorage'[e].investors, mem3', mem4'), i) =
             Holding(LedgerAt(smeStorage[e].investors, mem3, mem4), i)

\* the step leaves the sharesSold of the stored asset a and every investor's
\* holding in it as they were
AssetUntouched(a) ==
    /\ Has(mem2', a)
    /\ mem2'[a].sharesSold = mem2[a].sharesSold
    /\ \A i \in Investors :
          Holding(LedgerAt(mem2'[a].investors, mem3', mem4'), i) =
             Holding(LedgerAt(mem2[a].investors, mem3, mem4), i)

\* C16: an investment in an enterprise, accepted or rejected, leaves every
\* other enterprise and every asset untouched; an investment in an asset
\* leaves every enterprise (its parent too) and every other asset untouched.
C16_InvestTouchesOnlyItsTarget ==
    [][/\ (last'.op = "invest_in_sme") =>
             \A smeId \in IdArgs, investorId \in Investors, amount \in AmountArgs :
                invest_in_sme(smeId, investorId, amount) =>
                   /\ \A e \in DOMAIN smeStorage \ {smeId} : SmeUntouched(e)
                   /\ \A a \in DOMAIN mem2 : AssetUntouched(a)
       /\ (last'.op = "invest_in_asset") =>
             \A smeId \in IdArgs, assetId \in IdArgs, investorId \in Investors,
                amount \in AmountArgs :
                invest_in_asset(smeId, assetId, investorId, amount) =>
                   /\ \A e \in DOMAIN smeStorage : SmeUntouched(e)
                   /\ \A a \in DOMAIN mem2 \ {assetId} : AssetUntouched(a)
      ]_vars

\* C17: in every step, each stored enterprise and asset stays stored with
\* the same id, name, totalShares, unit price and (asset) parent; the asset
\* collection of an enterprise loses nothing and gains an asset only by a
\* register_asset on that enterprise; and the sharesSold or a holding of an
\* entity changes only by an invest_in_sme / invest_in_asset on that entity.
C17_EntitiesFixedOnceCreated ==
    [][/\ \A e \in DOMAIN smeStorage :
             /\ Has(smeStorage', e)
             /\ smeStorage'[e].smeId = smeStorage[e].smeId
             /\ smeStorage'[e].name = smeStorage[e].name
             /\ smeStorage'[e].totalShares = smeStorage[e].totalShares
             /\ smeStorage'[e].pricePerShare = smeStorage[e].pricePerShare
             /\ DOMAIN AssetsOf(e) \subseteq DOMAIN CollectionAt(smeStorage'[e].assets, mem2')
             /\ \A a \in DOMAIN CollectionAt(smeStorage'[e].assets, mem2') \ DOMAIN AssetsOf(e) :
                   \E name \in AssetNames, value \in ValueArgs, totalShares \in AssetShareArgs :
                      register_asset(e, name, value, totalShares)
             /\ \/ SmeUntouched(e)
                \/ \E investorId \in Investors, amount \in AmountArgs :
                      invest_in_sme(e, investorId, amount)
       /\ \A a \in DOMAIN mem2 :
             /\ Has(mem2', a)
             /\ mem2'[a].assetId = mem2[a].assetId
             /\ mem2'[a].name = mem2[a].name
             /\ mem2'[a].totalShares = mem2[a].totalShares
             /\ mem2'[a].valuePerShare = mem2[a].valuePerShare
             /\ mem2'[a].smeId = mem2[a].smeId
             /\ \/ AssetUntouched(a)
                \/ \E smeId \in IdArgs, investorId \in Investors, amount \in AmountArgs :
                      invest_in_asset(smeId, a, investorId, amount)
      ]_vars

\* C18: in every step, no entity's sharesSold and no investor's holding in
\* any entity becomes smaller, and no holding is below 0 after the step.
C18_NothingDecreases ==
    [][/\ \A e \in DOMAIN smeStorage :
             /\ ~Gt(smeStorage[e].sharesSold, smeStorage'[e].sharesSold)
             /\ \A i \in Investors :
                   LET before == Holding(LedgerAt(smeStorage[e].investors, mem3, mem4), i)
                       after == Holding(LedgerAt(smeStorage'[e].investors, mem3', mem4'), i)
                   IN ~Gt(before, after) /\ ~Gt(Fin(0), after)
       /\ \A a \in DOMAIN mem2 :
             /\ ~Gt(mem2[a].sharesSold, mem2'[a].sharesSold)
             /\ \A i \in Investors :
                   LET before == Holding(LedgerAt(mem2[a].investors, mem3, mem4), i)
                       after == Holding(LedgerAt(mem2'[a].investors, mem3', mem4'), i)
                   IN ~Gt(before, after) /\ ~Gt(Fin(0), after)
      ]_vars

\* 0 < amount < unitPrice
BelowUnitPrice(amount, unitPrice) ==
    /\ amount > 0
    /\ \/ unitPrice.t = "inf" /\ unitPrice.n > 0
       \/ unitPrice.t = "fin" /\ unitPrice.d > 0 /\ amount * unitPrice.d < unitPrice.n

\* C19: an investment with 0 < amount < unitPrice in an existing enterprise
\* or asset is accepted, and leaves the entity's sharesSold and every
\* investor's holding in it as they were (it buys 0 shares).
C19_BelowPriceBuysNothing ==
    [][/\ (last'.op = "invest_in_sme") =>
             \A smeId \in IdArgs, investorId \in Investors, amount \in AmountArgs :
                (/\ Has(smeStorage, smeId)
                 /\ BelowUnitPrice(amount, smeStorage[smeId].pricePerShare)
                 /\ invest_in_sme(smeId, investorId, amount)) =>
                   (last'.result = "ok" /\ SmeUntouched(smeId))
       /\ (last'.op = "invest_in_asset") =>
             \A smeId \in IdArgs, assetId \in IdArgs, investorId \in Investors,
                amount \in AmountArgs :
                (/\ Has(smeStorage, smeId)
                 /\ Has(AssetsOf(smeId), assetId)
                 /\ BelowUnitPrice(amount, AssetsOf(smeId)[assetId].valuePerShare)
                 /\ invest_in_asset(smeId, assetId, investorId, amount)) =>
                   (last'.result = "ok" /\ AssetUntouched(assetId))
      ]_vars
====
